---- MODULE Spec2Model ----
(***************************************************************************)
(* The on-chain metadata retrieval pipeline of the NFT viewer:             *)
(* getNFTsFromContract drives fetchNFTDataWithRetry / fetchNFTData in      *)
(* batches over the token indices of one ERC-721 contract.  The chain is   *)
(* the environment: every read (totalSupply, tokenURI, ownerOf) is in      *)
(* flight until the environment resolves or rejects it; a handler runs     *)
(* from the event that wakes it to its next await.                         *)
(***************************************************************************)
EXTENDS Integers, Sequences, FiniteSets

VARIABLES
    pc,             \* position of the getNFTsFromContract call
    hasProgress,    \* whether the caller passed onProgress
    chainSupply,    \* what totalSupply() answers on chain
    faultsLeft,     \* failures the chain may still inject into token reads
    supplyRead,     \* the totalSupply read: "none", "pending", "ok", "failed"
    totalSupply,    \* local totalSupply (as Number), -1 before the read
    totalTokens,    \* local totalTokens
    i,              \* loop variable of the batch loop
    processedCount, \* local processedCount
    nfts,           \* local nfts: the records pushed so far
    fetch,          \* the fetchNFTDataWithRetry calls started, by token index
    settleOrder,    \* indices of the latest batch in the order they settled
    stale,          \* reads still in flight whose Promise.all already rejected
    progress,       \* the onProgress invocations so far, as <<current, total>>
    error           \* what the call threw, "none" if nothing

\* The other parts of the program, each a record of its own state, "off" in
\* the specifications that are not about it.
VARIABLES
    decoder,        \* one run of the data-URI functions on one input
    grid,           \* the NFTGrid component
    page,           \* the views of the MainPage component
    images,         \* the contract cards of the MainPage component
    renderer        \* what NFTGrid and NFTDetail have rendered

others == <<decoder, grid, page, images, renderer>>

scan == <<pc, hasProgress, chainSupply, faultsLeft, supplyRead, totalSupply,
          totalTokens, i, processedCount, nfts, fetch, settleOrder, stale,
          progress, error>>

vars == <<scan, others>>

(* ------------------------------ bounds --------------------------------- *)

\* The collections scanned: every supply 0 .. MaxSmallSupply and one of
\* MidSupply tokens (more than one batch), each with the number of failures
\* the chain may inject into its token reads, and one of LargeSupply tokens
\* (above the cap) on a chain that answers every token read.
MaxSmallSupply == 2
MaxFaults == 6
MidSupply == 7
MidFaults == 2
LargeSupply == 45

(* --------------------------- program constants ------------------------- *)

maxNFTs == 30
batchSize == 5
maxRetries == 3

(* ------------------------------ helpers -------------------------------- *)

Min(a, b) == IF a < b THEN a ELSE b

Max(a, b) == IF a > b THEN a ELSE b

Digit == <<"0", "1", "2", "3", "4", "5", "6", "7", "8", "9">>

\* Number.prototype.toString for a non-negative integer: its decimal digits
RECURSIVE ToString(_)
ToString(n) ==
    IF n < 10 THEN <<Digit[n + 1]>>
    ELSE ToString(n \div 10) \o <<Digit[(n % 10) + 1]>>

\* the NFT record fetchNFTData assembles for a token index
NFTRecord(tokenId) == [tokenId |-> ToString(tokenId)]

\* totalTokens = Math.min(Number(totalSupply), maxNFTs)
TotalTokensMax(supply) == Max(supply, maxNFTs)
TotalTokensNoCap(supply) == supply
TotalTokens(supply) == Min(supply, maxNFTs)

\* end = Math.min(i + batchSize, totalTokens)
BatchEndInclusive(start, total) == Min(start + batchSize, total) + 1
BatchEndAll(start, total) == total
BatchEnd(start, total) == Min(start + batchSize, total)

\* a fetchNFTDataWithRetry call at the start of an attempt: fetchNFTData has
\* issued tokenURI and ownerOf and awaits Promise.all of the two
Attempt(n) ==
    [attempt |-> n, phase |-> "reads", uri |-> "pending", owner |-> "pending",
     value |-> "none", timer |-> 0, waited |-> 0]

\* the loop condition of the retry loop
LoopContinuesOffByOne(attempt) == attempt <= maxRetries + 1
LoopContinues(attempt) == attempt <= maxRetries

\* what the call resolves to when the loop runs out
ExhaustedOutcome == "null"

\* attempt++ and the loop test: the next attempt, or the end of the loop;
\* waited is the time the call has spent in its backoff timers, in ms
NextAttempt(r) ==
    IF LoopContinues(r.attempt + 1)
    THEN [Attempt(r.attempt + 1) EXCEPT !.waited = r.waited + r.timer]
    ELSE [attempt |-> r.attempt, phase |-> "settled", uri |-> "none",
          owner |-> "none", value |-> ExhaustedOutcome, timer |-> 0,
          waited |-> r.waited + r.timer]

\* waitTime = 1000 * attempt
WaitTimeFixed(attempt) == 1000
WaitTime(attempt) == 1000 * attempt

\* the catch block of the retry loop: wait before the next attempt unless
\* this was the last one
AttemptFailedAlwaysWaits(r) ==
    [attempt |-> r.attempt, phase |-> "backoff", uri |-> "none",
     owner |-> "none", value |-> "none", timer |-> WaitTime(r.attempt),
     waited |-> r.waited]
AttemptFailed(r) ==
    IF r.attempt < maxRetries
    THEN [attempt |-> r.attempt, phase |-> "backoff", uri |-> "none",
          owner |-> "none", value |-> "none", timer |-> WaitTime(r.attempt),
          waited |-> r.waited]
    ELSE NextAttempt(r)

\* fetchNFTData returned a record: the call resolves to it
AttemptSucceeded(r) ==
    [attempt |-> r.attempt, phase |-> "settled", uri |-> "none",
     owner |-> "none", value |-> "nft", timer |-> 0, waited |-> r.waited]

\* both reads resolved: decodeDataURI and JSON.parse of the tokenURI value
\* either give the metadata or throw, which fetchNFTData turns into null
AfterReads(r, uriValue) ==
    IF uriValue = "json" THEN AttemptSucceeded(r) ELSE AttemptFailed(r)

\* batch.push(fetchNFTDataWithRetry(...)) for j in start .. end - 1
StartBatch(f, start, end) ==
    [j \in DOMAIN f \cup (start .. end - 1) |->
        IF j \in start .. end - 1 THEN Attempt(1) ELSE f[j]]

\* Promise.allSettled(batch) resolves once every call of the batch settled
AllSettledButLast(f, start, end) ==
    \A j \in start .. end - 2 : j \in DOMAIN f /\ f[j].phase = "settled"
AllSettledAny(f, start, end) ==
    \E j \in start .. end - 1 : j \in DOMAIN f /\ f[j].phase = "settled"
AllSettled(f, start, end) ==
    \A j \in start .. end - 1 : j \in DOMAIN f /\ f[j].phase = "settled"

\* the records the forEach pushes: results are in the order of the batch
\* array; a result is pushed when it is fulfilled with a non-null value
RECURSIVE CollectNoValueCheck(_, _, _, _)
CollectNoValueCheck(f, order, start, end) ==
    IF start >= end THEN <<>>
    ELSE (IF f[start].value = "nft" THEN <<NFTRecord(start)>>
          ELSE IF f[start].value = "null"
               THEN <<[tokenId |-> <<"n", "u", "l", "l">>]>>
               ELSE <<>>)
         \o CollectNoValueCheck(f, order, start + 1, end)
RECURSIVE CollectByCompletion(_, _, _, _)
CollectByCompletion(f, order, start, end) ==
    IF order = <<>> THEN <<>>
    ELSE (IF f[Head(order)].value = "nft" THEN <<NFTRecord(Head(order))>>
          ELSE <<>>)
         \o CollectByCompletion(f, Tail(order), start, end)
RECURSIVE Collect(_, _, _, _)
Collect(f, order, start, end) ==
    IF start >= end THEN <<>>
    ELSE (IF start \in DOMAIN f /\ f[start].value = "nft"
          THEN <<NFTRecord(start)>> ELSE <<>>)
         \o Collect(f, order, start + 1, end)

\* the onProgress invocations of one forEach over n results
ReportOncePerBatch(given, processed, n, total) ==
    IF given /\ n > 0 THEN <<<<processed + n, total>>>> ELSE <<>>
ReportProgress(given, processed, n, total) ==
    IF given THEN [k \in 1 .. n |-> <<processed + k, total>>] ELSE <<>>

\* the catch block of getNFTsFromContract
OnErrorSwallow(e) == [pc |-> "returned", error |-> "none"]
OnError(e) == [pc |-> "thrown", error |-> e]

(* ------------------------------- Init ---------------------------------- *)

Fresh ==
    /\ pc = "idle"
    /\ supplyRead = "none"
    /\ totalSupply = -1
    /\ totalTokens = -1
    /\ i = 0
    /\ processedCount = 0
    /\ nfts = <<>>
    /\ fetch = <<>>
    /\ settleOrder = <<>>
    /\ stale = 0
    /\ progress = <<>>
    /\ error = "none"

Init ==
    /\ Fresh
    /\ decoder = "off" /\ grid = "off" /\ page = "off" /\ images = "off"
    /\ renderer = "off"
    /\ \/ /\ chainSupply \in 0 .. MaxSmallSupply
          /\ faultsLeft = MaxFaults
          /\ hasProgress \in BOOLEAN
       \/ /\ chainSupply = MidSupply
          /\ faultsLeft = MidFaults
          /\ hasProgress = TRUE
       \/ /\ chainSupply = LargeSupply
          /\ faultsLeft = 0
          /\ hasProgress = TRUE

(* ------------------------------ actions -------------------------------- *)

\* getNFTsFromContract is called: new Contract, the totalSupply read is issued
GetNFTsFromContract ==
    /\ pc = "idle"
    /\ pc' = "supply"
    /\ supplyRead' = "pending"
    /\ UNCHANGED <<others, hasProgress, chainSupply, faultsLeft, totalSupply,
                   totalTokens, i, processedCount, nfts, fetch, settleOrder,
                   stale, progress, error>>

\* totalSupply() resolved: cap, early return on 0, else the first batch
TotalSupplyResolve ==
    /\ pc = "supply"
    /\ supplyRead' = "ok"
    /\ totalSupply' = chainSupply
    /\ totalTokens' = TotalTokens(chainSupply)
    /\ IF totalTokens' = 0
       THEN /\ pc' = "returned"
            /\ fetch' = fetch
       ELSE /\ pc' = "batch"
            /\ fetch' = StartBatch(fetch, 0, BatchEnd(0, totalTokens'))
    /\ UNCHANGED <<others, hasProgress, chainSupply, faultsLeft, i,
                   processedCount, nfts, settleOrder, stale, progress, error>>

\* totalSupply() rejected: the catch block logs and rethrows
TotalSupplyReject ==
    /\ pc = "supply"
    /\ supplyRead' = "failed"
    /\ pc' = OnError("totalSupplyError").pc
    /\ error' = OnError("totalSupplyError").error
    /\ UNCHANGED <<others, hasProgress, chainSupply, faultsLeft, totalSupply,
                   totalTokens, i, processedCount, nfts, fetch, settleOrder,
                   stale, progress>>

\* the rest of the step after the calls became f2 and t may have settled:
\* when Promise.allSettled resolves, the forEach, then the next batch or return
Continue(f2, t) ==
    LET end == BatchEnd(i, totalTokens)
        order == IF f2[t].phase = "settled" THEN Append(settleOrder, t)
                 ELSE settleOrder
    IN  IF pc = "batch" /\ AllSettled(f2, i, end)
        THEN /\ nfts' = nfts \o Collect(f2, order, i, end)
             /\ processedCount' = processedCount + (end - i)
             /\ progress' = progress \o
                    ReportProgress(hasProgress, processedCount, end - i,
                                   totalTokens)
             /\ i' = i + batchSize
             /\ IF i' < totalTokens
                THEN /\ fetch' = StartBatch(f2, i', BatchEnd(i', totalTokens))
                     /\ settleOrder' = <<>>
                     /\ pc' = "batch"
                ELSE /\ fetch' = f2
                     /\ settleOrder' = order
                     /\ pc' = "returned"
        ELSE /\ fetch' = f2
             /\ settleOrder' = order
             /\ UNCHANGED <<nfts, processedCount, progress, i, pc>>

Reading(t) == t \in DOMAIN fetch /\ fetch[t].phase = "reads"

\* tokenURI(t) resolved with a value v
TokenURIResolve(t, v) ==
    /\ Reading(t) /\ fetch[t].uri = "pending"
    /\ IF v = "json" THEN faultsLeft' = faultsLeft
       ELSE faultsLeft > 0 /\ faultsLeft' = faultsLeft - 1
    /\ IF fetch[t].owner = "ok"
       THEN Continue([fetch EXCEPT ![t] = AfterReads(fetch[t], v)], t)
       ELSE Continue([fetch EXCEPT ![t].uri = v], t)
    /\ UNCHANGED <<others, hasProgress, chainSupply, supplyRead, totalSupply,
                   totalTokens, stale, error>>

\* tokenURI(t) rejected: Promise.all rejects at once, ownerOf may still run
TokenURIReject(t) ==
    /\ Reading(t) /\ fetch[t].uri = "pending"
    /\ faultsLeft > 0 /\ faultsLeft' = faultsLeft - 1
    /\ stale' = IF fetch[t].owner = "pending" THEN stale + 1 ELSE stale
    /\ Continue([fetch EXCEPT ![t] = AttemptFailed(fetch[t])], t)
    /\ UNCHANGED <<others, hasProgress, chainSupply, supplyRead, totalSupply,
                   totalTokens, error>>

\* ownerOf(t) resolved
OwnerOfResolve(t) ==
    /\ Reading(t) /\ fetch[t].owner = "pending"
    /\ IF fetch[t].uri # "pending"
       THEN Continue([fetch EXCEPT
                          ![t] = AfterReads(fetch[t], fetch[t].uri)], t)
       ELSE Continue([fetch EXCEPT ![t].owner = "ok"], t)
    /\ UNCHANGED <<others, hasProgress, chainSupply, faultsLeft, supplyRead,
                   totalSupply, totalTokens, stale, error>>

\* ownerOf(t) rejected: Promise.all rejects at once, tokenURI may still run
OwnerOfReject(t) ==
    /\ Reading(t) /\ fetch[t].owner = "pending"
    /\ faultsLeft > 0 /\ faultsLeft' = faultsLeft - 1
    /\ stale' = IF fetch[t].uri = "pending" THEN stale + 1 ELSE stale
    /\ Continue([fetch EXCEPT ![t] = AttemptFailed(fetch[t])], t)
    /\ UNCHANGED <<others, hasProgress, chainSupply, supplyRead, totalSupply,
                   totalTokens, error>>

\* the setTimeout of the backoff fired: the loop goes to its next attempt
BackoffElapsed(t) ==
    /\ t \in DOMAIN fetch /\ fetch[t].phase = "backoff"
    /\ Continue([fetch EXCEPT ![t] = NextAttempt(fetch[t])], t)
    /\ UNCHANGED <<others, hasProgress, chainSupply, faultsLeft, supplyRead,
                   totalSupply, totalTokens, stale, error>>

\* a read nobody awaits any more settles
StaleSettle ==
    /\ stale > 0
    /\ stale' = stale - 1
    /\ UNCHANGED <<others, pc, hasProgress, chainSupply, faultsLeft, supplyRead,
                   totalSupply, totalTokens, i, processedCount, nfts, fetch,
                   settleOrder, progress, error>>

Next ==
    \/ GetNFTsFromContract
    \/ TotalSupplyResolve
    \/ TotalSupplyReject
    \/ \E t \in DOMAIN fetch, v \in {"json", "garbage"} : TokenURIResolve(t, v)
    \/ \E t \in DOMAIN fetch : TokenURIReject(t)
    \/ \E t \in DOMAIN fetch : OwnerOfResolve(t)
    \/ \E t \in DOMAIN fetch : OwnerOfReject(t)
    \/ \E t \in DOMAIN fetch : BackoffElapsed(t)
    \/ StaleSettle

Spec == Init /\ [][Next]_vars

\* a chain read in flight settles, a backoff timer that was set fires
Settles ==
    \/ TotalSupplyResolve
    \/ TotalSupplyReject
    \/ \E t \in DOMAIN fetch, v \in {"json", "garbage"} : TokenURIResolve(t, v)
    \/ \E t \in DOMAIN fetch : TokenURIReject(t)
    \/ \E t \in DOMAIN fetch : OwnerOfResolve(t)
    \/ \E t \in DOMAIN fetch : OwnerOfReject(t)
    \/ \E t \in DOMAIN fetch : BackoffElapsed(t)

\* the faults of the fair scan: enough for one token to use up its attempts
FairFaults == 3

\* as Init, with the chain of a small collection, of one of two batches with
\* one fault, or of a large one
InitFair ==
    /\ Fresh
    /\ decoder = "off" /\ grid = "off" /\ page = "off" /\ images = "off"
    /\ renderer = "off"
    /\ hasProgress \in BOOLEAN
    /\ \/ /\ chainSupply \in 0 .. MaxSmallSupply
          /\ faultsLeft = FairFaults
       \/ /\ chainSupply = batchSize + 1
          /\ faultsLeft = 1
       \/ /\ chainSupply = LargeSupply
          /\ faultsLeft = 0

\* the scan under the assumption that every read settles and every timer
\* fires; whether the call is made at all is left open
SpecFair == InitFair /\ [][Next]_vars /\ WF_vars(Settles)

(* ------------------- strings and the data-URI functions ---------------- *)

\* A string is the sequence of its code points.  Ascii lists the printable
\* ASCII characters, code points 32 .. 126, to write string literals with
\* (the grave accent, which no literal can hold, is left empty).
Ascii ==
    <<" ", "!", "\"", "#", "$", "%", "&", "'", "(", ")", "*", "+", ",",
      "-", ".", "/", "0", "1", "2", "3", "4", "5", "6", "7", "8", "9", ":",
      ";", "<", "=", ">", "?", "@", "A", "B", "C", "D", "E", "F", "G", "H",
      "I", "J", "K", "L", "M", "N", "O", "P", "Q", "R", "S", "T", "U", "V",
      "W", "X", "Y", "Z", "[", "\\", "]", "^", "_", "", "a", "b", "c",
      "d", "e", "f", "g", "h", "i", "j", "k", "l", "m", "n", "o", "p", "q",
      "r", "s", "t", "u", "v", "w", "x", "y", "z", "{", "|", "}", "~">>

Code(c) == 31 + (CHOOSE k \in 1 .. 95 : Ascii[k] = c)

Str(chars) == [k \in 1 .. Len(chars) |-> Code(chars[k])]

Comma == Code(",")

Percent == Code("%")

\* what a call gives: a value, or an exception
Return(v) == [ok |-> TRUE, text |-> v]

Throw == [ok |-> FALSE, text |-> <<>>]

\* String.prototype.includes
Includes(s, sub) ==
    \E k \in 1 .. Len(s) - Len(sub) + 1 : SubSeq(s, k, k + Len(sub) - 1) = sub

\* String.prototype.split(',')
RECURSIVE Split(_)
Split(s) ==
    IF \A k \in 1 .. Len(s) : s[k] # Comma THEN <<s>>
    ELSE LET k == CHOOSE k \in 1 .. Len(s) :
                      s[k] = Comma /\ \A j \in 1 .. k - 1 : s[j] # Comma
         IN  <<SubSeq(s, 1, k - 1)>> \o Split(SubSeq(s, k + 1, Len(s)))

\* Array.prototype.join(',')
RECURSIVE Join(_)
Join(parts) ==
    IF parts = <<>> THEN <<>>
    ELSE IF Len(parts) = 1 THEN parts[1]
    ELSE parts[1] \o <<Comma>> \o Join(Tail(parts))

IsHexDigit(c) == c \in (48 .. 57) \cup (65 .. 70) \cup (97 .. 102)

HexValue(c) ==
    IF c \in 48 .. 57 THEN c - 48
    ELSE IF c \in 65 .. 70 THEN c - 55
    ELSE c - 87

\* the upper-case hexadecimal digit of a value 0 .. 15
HexDigit(v) == IF v < 10 THEN 48 + v ELSE 55 + v

\* s has %XX at position k
EscapeAt(s, k) ==
    /\ k + 2 <= Len(s)
    /\ s[k] = Percent
    /\ IsHexDigit(s[k + 1])
    /\ IsHexDigit(s[k + 2])

ByteAt(s, k) == 16 * HexValue(s[k + 1]) + HexValue(s[k + 2])

\* the test /%[0-9A-Fa-f]{2}/
HasEscape(s) == \E k \in 1 .. Len(s) : EscapeAt(s, k)

\* the number of continuation bytes a UTF-8 lead byte announces, 0 for a
\* byte that cannot lead
Continuations(b) ==
    IF b \in 194 .. 223 THEN 1
    ELSE IF b \in 224 .. 239 THEN 2
    ELSE IF b \in 240 .. 244 THEN 3
    ELSE 0

\* the n escapes after the lead byte at k are continuation bytes of a
\* well-formed UTF-8 sequence
ValidTail(s, k, n) ==
    /\ \A j \in 1 .. n :
          EscapeAt(s, k + 3 * j) /\ ByteAt(s, k + 3 * j) \in 128 .. 191
    /\ ByteAt(s, k) = 224 => ByteAt(s, k + 3) >= 160
    /\ ByteAt(s, k) = 237 => ByteAt(s, k + 3) <= 159
    /\ ByteAt(s, k) = 240 => ByteAt(s, k + 3) >= 144
    /\ ByteAt(s, k) = 244 => ByteAt(s, k + 3) <= 143

\* the code point of the UTF-8 sequence of n + 1 escapes at k
CodePoint(s, k, n) ==
    IF n = 1 THEN (ByteAt(s, k) - 192) * 64 + (ByteAt(s, k + 3) - 128)
    ELSE IF n = 2
    THEN (ByteAt(s, k) - 224) * 4096 + (ByteAt(s, k + 3) - 128) * 64
         + (ByteAt(s, k + 6) - 128)
    ELSE (ByteAt(s, k) - 240) * 262144 + (ByteAt(s, k + 3) - 128) * 4096
         + (ByteAt(s, k + 6) - 128) * 64 + (ByteAt(s, k + 9) - 128)

Cons(c, r) == IF r.ok THEN Return(<<c>> \o r.text) ELSE r

\* decodeURIComponent of the suffix of s from k: URIError on a % that is not
\* an escape and on escapes that are not UTF-8
RECURSIVE DecodeFrom(_, _)
DecodeFrom(s, k) ==
    IF k > Len(s) THEN Return(<<>>)
    ELSE IF s[k] # Percent THEN Cons(s[k], DecodeFrom(s, k + 1))
    ELSE IF ~EscapeAt(s, k) THEN Throw
    ELSE IF ByteAt(s, k) < 128 THEN Cons(ByteAt(s, k), DecodeFrom(s, k + 3))
    ELSE LET n == Continuations(ByteAt(s, k))
         IN  IF n = 0 \/ ~ValidTail(s, k, n) THEN Throw
             ELSE Cons(CodePoint(s, k, n), DecodeFrom(s, k + 3 * (n + 1)))

DecodeURIComponent(s) == DecodeFrom(s, 1)

\* the characters encodeURIComponent leaves as they are:
\* A-Z a-z 0-9 - _ . ! ~ * ' ( )
Unreserved(c) ==
    c \in (48 .. 57) \cup (65 .. 90) \cup (97 .. 122)
          \cup {45, 95, 46, 33, 126, 42, 39, 40, 41}

Utf8(c) ==
    IF c < 128 THEN <<c>>
    ELSE IF c < 2048 THEN <<192 + (c \div 64), 128 + (c % 64)>>
    ELSE IF c < 65536
    THEN <<224 + (c \div 4096), 128 + ((c \div 64) % 64), 128 + (c % 64)>>
    ELSE <<240 + (c \div 262144), 128 + ((c \div 4096) % 64),
           128 + ((c \div 64) % 64), 128 + (c % 64)>>

RECURSIVE PercentBytes(_)
PercentBytes(bytes) ==
    IF bytes = <<>> THEN <<>>
    ELSE <<Percent, HexDigit(Head(bytes) \div 16), HexDigit(Head(bytes) % 16)>>
         \o PercentBytes(Tail(bytes))

\* encodeURIComponent: URIError on a lone surrogate
RECURSIVE EncodeURIComponent(_)
EncodeURIComponent(s) ==
    IF s = <<>> THEN Return(<<>>)
    ELSE IF Head(s) \in 55296 .. 57343 THEN Throw
    ELSE LET rest == EncodeURIComponent(Tail(s))
             head == IF Unreserved(Head(s)) THEN <<Head(s)>>
                     ELSE PercentBytes(Utf8(Head(s)))
         IN  IF rest.ok THEN Return(head \o rest.text) ELSE rest

\* the value of a base64 digit, -1 for any other character
Base64Value(c) ==
    IF c \in 65 .. 90 THEN c - 65
    ELSE IF c \in 97 .. 122 THEN c - 71
    ELSE IF c \in 48 .. 57 THEN c + 4
    ELSE IF c = 43 THEN 62
    ELSE IF c = 47 THEN 63
    ELSE -1

IsNotWhitespace(c) == c \notin {9, 10, 12, 13, 32}

\* one or two = are dropped from the end of a string of 4n characters
StripPadding(s) ==
    IF Len(s) > 0 /\ Len(s) % 4 = 0 /\ s[Len(s)] = 61
    THEN IF s[Len(s) - 1] = 61 THEN SubSeq(s, 1, Len(s) - 2)
         ELSE SubSeq(s, 1, Len(s) - 1)
    ELSE s

\* the bytes of a string of base64 digits
RECURSIVE Base64Bytes(_)
Base64Bytes(d) ==
    IF Len(d) < 2 THEN <<>>
    ELSE LET a == Base64Value(d[1])
             b == Base64Value(d[2])
         IN  IF Len(d) = 2 THEN <<a * 4 + (b \div 16)>>
             ELSE LET c == Base64Value(d[3])
                  IN  IF Len(d) = 3
                      THEN <<a * 4 + (b \div 16), (b % 16) * 16 + (c \div 4)>>
                      ELSE <<a * 4 + (b \div 16), (b % 16) * 16 + (c \div 4),
                             (c % 4) * 64 + Base64Value(d[4])>>
                           \o Base64Bytes(SubSeq(d, 5, Len(d)))

\* atob: InvalidCharacterError unless the string, without whitespace and
\* padding, is base64 digits and not 4n + 1 of them
Atob(s) ==
    LET d == StripPadding(SelectSeq(s, IsNotWhitespace))
    IN  IF Len(d) % 4 = 1 \/ \E k \in 1 .. Len(d) : Base64Value(d[k]) < 0
        THEN Throw
        ELSE Return(Base64Bytes(d))

Base64Marker == Str(<<";", "b", "a", "s", "e", "6", "4", ",">>)

\* parts.slice(1).join(',') of decodeDataURI
PayloadFirstPart(parts) == parts[2]
Payload(parts) == Join(Tail(parts))

\* const base64Data = dataURI.split(',')[1]; return atob(base64Data)
DecodeBase64(dataURI) == Atob(Split(dataURI)[2])

\* try decodeURIComponent(data), on an exception return data
DecodeEscapes(data) ==
    IF DecodeURIComponent(data).ok THEN DecodeURIComponent(data)
    ELSE Return(data)

decodeDataURI(dataURI) ==
    IF Includes(dataURI, Base64Marker) THEN DecodeBase64(dataURI)
    ELSE IF Len(Split(dataURI)) < 2 THEN Return(dataURI)
    ELSE IF HasEscape(Payload(Split(dataURI)))
    THEN DecodeEscapes(Payload(Split(dataURI)))
    ELSE Return(Payload(Split(dataURI)))

\* parts.slice(1).join(',') of ensureEncodedDataURI
SvgContentFirstPart(parts) == parts[2]
SvgContent(parts) == Join(Tail(parts))

ensureEncodedDataURI(dataURI) ==
    IF Includes(dataURI, Base64Marker) THEN Return(dataURI)
    ELSE IF Len(Split(dataURI)) < 2 THEN Return(dataURI)
    ELSE IF HasEscape(SvgContent(Split(dataURI))) THEN Return(dataURI)
    ELSE IF EncodeURIComponent(SvgContent(Split(dataURI))).ok
    THEN Return(Split(dataURI)[1] \o <<Comma>>
                \o EncodeURIComponent(SvgContent(Split(dataURI))).text)
    ELSE Throw

Quote == Code("\"")

\* what JSON.parse gives: a value, or a SyntaxError
Parsed(v) == [ok |-> TRUE, value |-> v]

SyntaxError == [ok |-> FALSE, value |-> [kind |-> "none"]]

Object(members) == [kind |-> "object", members |-> members]

\* the position of the quote that closes the string opened at k, 0 without
\* one; a string with a control character or a backslash is not accepted
\* (the texts of TokenURIs hold no escapes)
StringEnd(s, k) ==
    IF \E e \in k + 1 .. Len(s) : s[e] = Quote
    THEN LET e == CHOOSE e \in k + 1 .. Len(s) :
                      s[e] = Quote /\ \A j \in k + 1 .. e - 1 : s[j] # Quote
         IN  IF \E j \in k + 1 .. e - 1 : s[j] < 32 \/ s[j] = Code("\\")
             THEN 0 ELSE e
    ELSE 0

\* the members "key":"value" of an object from position k to its closing
\* brace, which ends the text
RECURSIVE Members(_, _)
Members(s, k) ==
    IF k > Len(s) \/ s[k] # Quote \/ StringEnd(s, k) = 0 THEN SyntaxError
    ELSE LET ke == StringEnd(s, k)
         IN  IF ke + 2 > Len(s) \/ s[ke + 1] # Code(":")
                \/ s[ke + 2] # Quote \/ StringEnd(s, ke + 2) = 0
                \/ StringEnd(s, ke + 2) + 1 > Len(s)
             THEN SyntaxError
             ELSE LET ve == StringEnd(s, ke + 2)
                      member == <<SubSeq(s, k + 1, ke - 1),
                                  SubSeq(s, ke + 3, ve - 1)>>
                  IN  IF s[ve + 1] = Code("}") /\ ve + 1 = Len(s)
                      THEN Parsed(Object(<<member>>))
                      ELSE IF s[ve + 1] = Comma /\ Members(s, ve + 2).ok
                      THEN Parsed(Object(<<member>> \o
                                  Members(s, ve + 2).value.members))
                      ELSE SyntaxError

\* JSON.parse on the texts met here: null, or an object whose members are
\* strings, written without whitespace; anything else is a SyntaxError
JSONParse(s) ==
    IF s = Str(<<"n", "u", "l", "l">>) THEN Parsed([kind |-> "null"])
    ELSE IF s = Str(<<"{", "}">>) THEN Parsed(Object(<<>>))
    ELSE IF Len(s) >= 2 /\ s[1] = Code("{") THEN Members(s, 2)
    ELSE SyntaxError

\* metadata has the member key
HasMember(metadata, key) ==
    /\ metadata.kind = "object"
    /\ \E k \in 1 .. Len(metadata.members) : metadata.members[k][1] = key

\* what a call of the service gives for one token
Record(metadata) == [kind |-> "record", metadata |-> metadata]

Null == [kind |-> "null"]

Thrown == [kind |-> "throw"]

\* decodeDataURI, then JSON.parse
DecodeAndParse(tokenURI) ==
    IF decodeDataURI(tokenURI).ok THEN JSONParse(decodeDataURI(tokenURI).text)
    ELSE SyntaxError

\* the body of fetchNFTData once both reads resolved: any exception, the
\* TypeError of metadata.image on null included, gives null
fetchNFTData(tokenURI) ==
    IF ~DecodeAndParse(tokenURI).ok THEN Null
    ELSE IF DecodeAndParse(tokenURI).value.kind = "null" THEN Null
    ELSE Record(DecodeAndParse(tokenURI).value)

\* the body of getNFTById once both reads resolved: exceptions are rethrown
getNFTById(tokenURI) ==
    IF ~DecodeAndParse(tokenURI).ok THEN Thrown
    ELSE Record(DecodeAndParse(tokenURI).value)

(* ------------------ the data-URI functions on their inputs ------------- *)

MaxPieces == 4

\* what the input strings are put together from: % 4 1 F , < e-acute and
\* the base64 marker
Pieces ==
    {Str(<<"%">>), Str(<<"4">>), Str(<<"1">>), Str(<<"F">>), Str(<<",">>),
     Str(<<"<">>), <<233>>, Base64Marker}

RECURSIVE Concat(_)
Concat(ps) == IF ps = <<>> THEN <<>> ELSE Head(ps) \o Concat(Tail(ps))

Strings ==
    {Concat(ps) : ps \in UNION {[1 .. n -> Pieces] : n \in 0 .. MaxPieces}}

\* tokenURI values a contract may return
TokenURIs ==
    {
        \* the metadata {"name":"Test"}, base64
        Str(<<"d", "a", "t", "a", ":", "a", "p", "p", "l", "i", "c", "a",
              "t", "i", "o", "n", "/", "j", "s", "o", "n", ";", "b", "a",
              "s", "e", "6", "4", ",", "e", "y", "J", "u", "Y", "W", "1",
              "l", "I", "j", "o", "i", "V", "G", "V", "z", "d", "C", "J",
              "9">>),
        \* the metadata {"name":"Test","image":"x"}, base64
        Str(<<"d", "a", "t", "a", ":", "a", "p", "p", "l", "i", "c", "a",
              "t", "i", "o", "n", "/", "j", "s", "o", "n", ";", "b", "a",
              "s", "e", "6", "4", ",", "e", "y", "J", "u", "Y", "W", "1",
              "l", "I", "j", "o", "i", "V", "G", "V", "z", "d", "C", "I",
              "s", "I", "m", "l", "t", "Y", "W", "d", "l", "I", "j", "o",
              "i", "e", "C", "J", "9">>),
        \* the metadata {"image":"a,b"}, plain
        Str(<<"d", "a", "t", "a", ":", "a", "p", "p", "l", "i", "c", "a",
              "t", "i", "o", "n", "/", "j", "s", "o", "n", ",", "{", "\"",
              "i", "m", "a", "g", "e", "\"", ":", "\"", "a", ",", "b", "\"",
              "}">>),
        \* the metadata {"name":"Test"}, percent-encoded
        Str(<<"d", "a", "t", "a", ":", "a", "p", "p", "l", "i", "c", "a",
              "t", "i", "o", "n", "/", "j", "s", "o", "n", ",", "%", "7",
              "B", "%", "2", "2", "n", "a", "m", "e", "%", "2", "2", "%",
              "3", "A", "%", "2", "2", "T", "e", "s", "t", "%", "2", "2",
              "%", "7", "D">>),
        \* the metadata {"image":"x"}, percent-encoded
        Str(<<"d", "a", "t", "a", ":", "a", "p", "p", "l", "i", "c", "a",
              "t", "i", "o", "n", "/", "j", "s", "o", "n", ",", "%", "7",
              "B", "%", "2", "2", "i", "m", "a", "g", "e", "%", "2", "2",
              "%", "3", "A", "%", "2", "2", "x", "%", "2", "2", "%", "7",
              "D">>),
        \* malformed base64
        Str(<<"d", "a", "t", "a", ":", "a", "p", "p", "l", "i", "c", "a",
              "t", "i", "o", "n", "/", "j", "s", "o", "n", ";", "b", "a",
              "s", "e", "6", "4", ",", "@", "@", "@">>),
        \* malformed JSON
        Str(<<"d", "a", "t", "a", ":", "a", "p", "p", "l", "i", "c", "a",
              "t", "i", "o", "n", "/", "j", "s", "o", "n", ",", "{", "\"",
              "n", "a", "m", "e", "\"", ":">>),
        \* the JSON text null
        Str(<<"d", "a", "t", "a", ":", "a", "p", "p", "l", "i", "c", "a",
              "t", "i", "o", "n", "/", "j", "s", "o", "n", ",", "n", "u",
              "l", "l">>),
        \* the empty object
        Str(<<"d", "a", "t", "a", ":", "a", "p", "p", "l", "i", "c", "a",
              "t", "i", "o", "n", "/", "j", "s", "o", "n", ",", "{", "}">>)
    }

SvgPrefix ==
    Str(<<"d", "a", "t", "a", ":", "i", "m", "a", "g", "e", "/", "s", "v",
          "g", "+", "x", "m", "l", ",">>)

Pending == [ok |-> FALSE, text |-> <<>>]

\* the scan is not running
ScanOff ==
    /\ Fresh
    /\ chainSupply = 0
    /\ faultsLeft = 0
    /\ hasProgress = FALSE

InitDecode ==
    /\ ScanOff
    /\ grid = "off" /\ page = "off" /\ images = "off"
    /\ renderer = "off"
    /\ \/ \E s \in Strings, kind \in {"text", "svg"} :
             decoder = [kind |-> kind, input |-> s, stage |-> "input",
                        encoded |-> Pending, out |-> Pending,
                        nft |-> [kind |-> "none"]]
       \/ \E u \in TokenURIs :
             decoder = [kind |-> "uri", input |-> u, stage |-> "input",
                        encoded |-> Pending, out |-> Pending,
                        nft |-> [kind |-> "none"]]

\* decodeDataURI(input)
DecodeDataURI ==
    /\ decoder.kind = "text" /\ decoder.stage = "input"
    /\ decoder' = [decoder EXCEPT !.stage = "decoded",
                                  !.out = decodeDataURI(decoder.input)]
    /\ UNCHANGED <<scan, grid, page, images, renderer>>

\* ensureEncodedDataURI('data:image/svg+xml,' + input)
EnsureEncodedDataURI ==
    /\ decoder.kind = "svg" /\ decoder.stage = "input"
    /\ decoder' =
          [decoder EXCEPT
              !.stage = "encoded",
              !.encoded = ensureEncodedDataURI(SvgPrefix \o decoder.input)]
    /\ UNCHANGED <<scan, grid, page, images, renderer>>

\* decodeDataURI of what ensureEncodedDataURI returned
DecodeEncoded ==
    /\ decoder.kind = "svg" /\ decoder.stage = "encoded"
    /\ decoder.encoded.ok
    /\ decoder' = [decoder EXCEPT !.stage = "decoded",
                                  !.out = decodeDataURI(decoder.encoded.text)]
    /\ UNCHANGED <<scan, grid, page, images, renderer>>

\* fetchNFTData on a token whose tokenURI() returned input
FetchNFTData ==
    /\ decoder.kind = "uri" /\ decoder.stage = "input"
    /\ decoder' = [decoder EXCEPT !.stage = "fetched",
                                  !.nft = fetchNFTData(decoder.input)]
    /\ UNCHANGED <<scan, grid, page, images, renderer>>

\* getNFTById on a token whose tokenURI() returned input
GetNFTById ==
    /\ decoder.kind = "uri" /\ decoder.stage = "input"
    /\ decoder' = [decoder EXCEPT !.stage = "got",
                                  !.nft = getNFTById(decoder.input)]
    /\ UNCHANGED <<scan, grid, page, images, renderer>>

NextDecode ==
    \/ DecodeDataURI
    \/ EnsureEncodedDataURI
    \/ DecodeEncoded
    \/ FetchNFTData
    \/ GetNFTById

SpecDecode == InitDecode /\ [][NextDecode]_vars

(* ------------------------ the NFTGrid component ------------------------ *)

MaxLoaded == 2

Attr(trait_type, value) == [trait_type |-> trait_type, value |-> value]

\* the metadata of an NFT as far as the filters read it; attributes is
\* optional
Metadata(hasAttributes, attributes) ==
    [hasAttributes |-> hasAttributes, attributes |-> attributes]

\* the NFTs the loaded lists are made of
SampleNFTs ==
    {Metadata(FALSE, <<>>),
     Metadata(TRUE, <<>>),
     Metadata(TRUE, <<Attr("Color", "Red")>>),
     Metadata(TRUE, <<Attr("Color", "Blue")>>),
     Metadata(TRUE, <<Attr("Color", "Blue"), Attr("Color", "Red")>>),
     Metadata(TRUE, <<Attr("Color", "Red"), Attr("Size", "Big")>>)}

\* the values of the nfts prop
Loaded == UNION {[1 .. n -> SampleNFTs] : n \in 0 .. MaxLoaded}

Traits == {"Color", "Size"}

\* activeFilters: an object whose keys are trait types and whose values are
\* sets (values[t] is read only for t in keys)
NoFilters == [keys |-> {}, values |-> [t \in Traits |-> {}]]

\* filterOptions, as the set of the (trait_type, value) it offers
filterOptions(nfts_) ==
    UNION {{<<nfts_[n].attributes[a].trait_type,
              nfts_[n].attributes[a].value>> :
               a \in 1 .. Len(nfts_[n].attributes)} :
           n \in {m \in 1 .. Len(nfts_) : nfts_[m].hasAttributes}}

\* attributes.find((attr) => attr.trait_type === trait_type): the index of
\* the first such attribute, 0 for undefined
Find(attributes, trait_type) ==
    IF \E a \in 1 .. Len(attributes) : attributes[a].trait_type = trait_type
    THEN CHOOSE a \in 1 .. Len(attributes) :
             /\ attributes[a].trait_type = trait_type
             /\ \A b \in 1 .. a - 1 : attributes[b].trait_type # trait_type
    ELSE 0

\* the callback of nfts.filter
PassesFilters(nft, activeFilters) ==
    /\ nft.hasAttributes
    /\ \A t \in activeFilters.keys :
          \/ activeFilters.values[t] = {}
          \/ /\ Find(nft.attributes, t) # 0
             /\ nft.attributes[Find(nft.attributes, t)].value
                    \in activeFilters.values[t]

filteredNFTs(nfts_, activeFilters) ==
    IF activeFilters.keys = {} THEN nfts_
    ELSE SelectSeq(nfts_, LAMBDA nft : PassesFilters(nft, activeFilters))

\* the updater of toggleFilter
toggleFilter(prev, trait_type, value) ==
    LET values == IF trait_type \in prev.keys THEN prev.values[trait_type]
                  ELSE {}
    IN  IF value \in values
        THEN [keys |-> IF values \ {value} = {} THEN prev.keys \ {trait_type}
                       ELSE prev.keys,
              values |-> [prev.values EXCEPT ![trait_type] = values \ {value}]]
        ELSE [keys |-> prev.keys \cup {trait_type},
              values |-> [prev.values EXCEPT
                             ![trait_type] = values \cup {value}]]

\* the component after a render with these props and this state
Render(nfts_, activeFilters) ==
    [nfts |-> nfts_, activeFilters |-> activeFilters,
     filteredNFTs |-> filteredNFTs(nfts_, activeFilters)]

\* NFTGrid is mounted with an empty list (the load has just started)
InitGrid ==
    /\ ScanOff
    /\ decoder = "off" /\ page = "off" /\ images = "off"
    /\ renderer = "off"
    /\ grid = Render(<<>>, NoFilters)

\* a checkbox of the filter dialog is clicked
ToggleFilter(trait_type, value) ==
    /\ <<trait_type, value>> \in filterOptions(grid.nfts)
    /\ grid' = Render(grid.nfts,
                      toggleFilter(grid.activeFilters, trait_type, value))
    /\ UNCHANGED <<scan, decoder, page, images, renderer>>

\* Clear Filters is clicked
ClearFilters ==
    /\ grid.activeFilters.keys # {}
    /\ grid' = Render(grid.nfts, NoFilters)
    /\ UNCHANGED <<scan, decoder, page, images, renderer>>

\* the parent renders the grid with another nfts list
NftsChange(nfts_) ==
    /\ nfts_ # grid.nfts
    /\ grid' = Render(nfts_, grid.activeFilters)
    /\ UNCHANGED <<scan, decoder, page, images, renderer>>

NextGrid ==
    \/ \E o \in filterOptions(grid.nfts) : ToggleFilter(o[1], o[2])
    \/ ClearFilters
    \/ \E nfts_ \in Loaded : NftsChange(nfts_)

SpecGrid == InitGrid /\ [][NextGrid]_vars

(* -------------------- the contract cards of MainPage ------------------- *)

\* fetchContractImages runs in flight at a time
MaxRuns == 1

ChainIds == {31337, 84532, 8453}

\* a registry entry (its description plays no part); image is not set
Contract(address, name, symbol) ==
    [address |-> address, name |-> name, symbol |-> symbol,
     image |-> "undefined"]

\* NFT_CONTRACTS_BY_NETWORK[chainId] || []
NFT_CONTRACTS_BY_NETWORK(chainId) ==
    IF chainId = 31337
    THEN <<Contract("0x011b5b823663C76dc70411C2be32124372464575",
                    "Hardhat NFT Collection", "HNFT"),
           Contract("0x90DF88f5c189cb3561E8da30182804Bc36F24361",
                    "Hardhat Test Art", "HART")>>
    ELSE IF chainId = 84532
    THEN <<Contract("0x0B929dbF7875c85923F14F412d64b5ee4acaF0A9",
                    "Base Sepolia NFT", "BSNFT")>>
    ELSE IF chainId = 8453
    THEN <<Contract("0x0000000000000000000000000000000000000000",
                    "Base NFT Collection", "BNFT")>>
    ELSE <<>>

\* one call of fetchContractImages: the registry entries it maps and, for
\* each, the state of getContractInfo, of getNFTById and of the mapped promise
NewRun(contracts) ==
    [contracts |-> contracts,
     info |-> [k \in 1 .. Len(contracts) |-> "pending"],
     token |-> [k \in 1 .. Len(contracts) |-> "pending"],
     entry |-> [k \in 1 .. Len(contracts) |->
                   [settled |-> FALSE, value |-> contracts[k]]]]

\* return {...contract, name, symbol, image: token0.metadata.image}
Enriched(contract, token) ==
    [contract EXCEPT !.name = "name()", !.symbol = "symbol()",
                     !.image = IF token = "image" THEN "token0.metadata.image"
                               ELSE "undefined"]

\* catch (err) { return contract }
KeepAddressOnly(contract) ==
    [contract EXCEPT !.name = "undefined", !.symbol = "undefined"]
KeepStatic(contract) == contract

\* the mapped promise of contract k resolves with value; what the promise
\* it no longer awaits does later has no effect and is not followed
Resolve(run, k, value) ==
    [run EXCEPT
        !.entry[k] = [settled |-> TRUE, value |-> value],
        !.info[k] = IF @ = "pending" THEN "dropped" ELSE @,
        !.token[k] = IF @ = "pending" \/ run.info[k] = "fail" THEN "dropped"
                     ELSE @]

\* the mapped promise of contract k after one of its two promises settled:
\* the first rejection, and the TypeError of token0.metadata.image on null
\* metadata, are caught; both fulfilled gives the enriched entry
Settle(run, k) ==
    IF run.entry[k].settled THEN run
    ELSE IF run.info[k] = "fail" \/ run.token[k] = "fail"
         \/ (run.info[k] = "ok" /\ run.token[k] = "nullmeta")
    THEN Resolve(run, k, KeepStatic(run.contracts[k]))
    ELSE IF run.info[k] = "ok" /\ run.token[k] # "pending"
    THEN Resolve(run, k, Enriched(run.contracts[k], run.token[k]))
    ELSE run

\* Promise.all(contractsWithImagesPromises): the values in the order of the
\* mapped contracts
UpdatedContracts(run) ==
    [k \in 1 .. Len(run.contracts) |-> run.entry[k].value]

RemoveAt(seq, n) == SubSeq(seq, 1, n - 1) \o SubSeq(seq, n + 1, Len(seq))

\* run n goes on after a settlement: once every mapped promise has
\* resolved, setContractsWithImages(updatedContracts)
GoOn(st, n, run) ==
    IF \A k \in 1 .. Len(run.contracts) : run.entry[k].settled
    THEN [st EXCEPT !.contractsWithImages = UpdatedContracts(run),
                    !.lastRun = <<run>>,
                    !.runs = RemoveAt(@, n)]
    ELSE [st EXCEPT !.runs[n] = run]

\* the effect on [isConnected, walletProvider, chainId]
ContractsEffect(st) ==
    IF st.isConnected /\ st.walletProvider
       /\ Len(NFT_CONTRACTS_BY_NETWORK(st.chainId)) > 0
    THEN [st EXCEPT !.runs =
             Append(@, NewRun(NFT_CONTRACTS_BY_NETWORK(st.chainId)))]
    ELSE [st EXCEPT
             !.contractsWithImages = NFT_CONTRACTS_BY_NETWORK(st.chainId),
             !.lastRun = <<>>]

\* MainPage is mounted without a wallet; the effect has run once
InitImages ==
    /\ ScanOff
    /\ decoder = "off" /\ grid = "off" /\ page = "off"
    /\ renderer = "off"
    /\ \E chainId \in ChainIds :
          images = [isConnected |-> FALSE, walletProvider |-> FALSE,
                    chainId |-> chainId,
                    contractsWithImages |-> NFT_CONTRACTS_BY_NETWORK(chainId),
                    runs |-> <<>>, lastRun |-> <<>>]

\* the state after the effect, when the bound on the runs allows it
Effected(st) ==
    /\ Len(ContractsEffect(st).runs) <= MaxRuns
    /\ images' = ContractsEffect(st)
    /\ UNCHANGED <<scan, decoder, grid, page, renderer>>

\* the wallet connects; its provider is not there yet
WalletConnected ==
    /\ ~images.isConnected
    /\ Effected([images EXCEPT !.isConnected = TRUE])

ProviderReady ==
    /\ images.isConnected /\ ~images.walletProvider
    /\ Effected([images EXCEPT !.walletProvider = TRUE])

WalletDisconnected ==
    /\ images.isConnected
    /\ Effected([images EXCEPT !.isConnected = FALSE,
                               !.walletProvider = FALSE])

NetworkSwitched(chainId) ==
    /\ chainId # images.chainId
    /\ Effected([images EXCEPT !.chainId = chainId])

\* a promise of contract k in run n is still awaited
Awaited(n, k) ==
    /\ n \in 1 .. Len(images.runs)
    /\ k \in 1 .. Len(images.runs[n].contracts)
    /\ ~images.runs[n].entry[k].settled

\* getContractInfo resolved: name(), symbol() and totalSupply() all did
InfoResolve(n, k) ==
    /\ Awaited(n, k) /\ images.runs[n].info[k] = "pending"
    /\ images' = GoOn(images, n,
                      Settle([images.runs[n] EXCEPT !.info[k] = "ok"], k))
    /\ UNCHANGED <<scan, decoder, grid, page, renderer>>

\* getContractInfo rejected: name(), symbol() or totalSupply() did
InfoReject(n, k) ==
    /\ Awaited(n, k) /\ images.runs[n].info[k] = "pending"
    /\ images' = GoOn(images, n,
                      Settle([images.runs[n] EXCEPT !.info[k] = "fail"], k))
    /\ UNCHANGED <<scan, decoder, grid, page, renderer>>

\* getNFTById of token 0 resolved: metadata with an image, metadata without
\* one, or the metadata null
TokenResolve(n, k, token) ==
    /\ Awaited(n, k) /\ images.runs[n].token[k] = "pending"
    /\ token \in {"image", "noimage", "nullmeta"}
    /\ images' = GoOn(images, n,
                      Settle([images.runs[n] EXCEPT !.token[k] = token], k))
    /\ UNCHANGED <<scan, decoder, grid, page, renderer>>

\* getNFTById of token 0 rejected
TokenReject(n, k) ==
    /\ Awaited(n, k) /\ images.runs[n].token[k] = "pending"
    /\ images' = GoOn(images, n,
                      Settle([images.runs[n] EXCEPT !.token[k] = "fail"], k))
    /\ UNCHANGED <<scan, decoder, grid, page, renderer>>

NextImages ==
    \/ WalletConnected
    \/ ProviderReady
    \/ WalletDisconnected
    \/ \E chainId \in ChainIds : NetworkSwitched(chainId)
    \/ \E n \in 1 .. Len(images.runs) :
          \E k \in 1 .. Len(images.runs[n].contracts) :
             \/ InfoResolve(n, k)
             \/ InfoReject(n, k)
             \/ \E token \in {"image", "noimage", "nullmeta"} :
                   TokenResolve(n, k, token)
             \/ TokenReject(n, k)

SpecImages == InitImages /\ [][NextImages]_vars

(* ------------------------- the views of MainPage ----------------------- *)

\* handleSelectContract calls in flight at a time
MaxCalls == 2

\* the cards of ContractsList: the contracts of the Hardhat network
Cards == NFT_CONTRACTS_BY_NETWORK(31337)

\* the record of token 0 of a contract
TokenZero(address) == [tokenId |-> ToString(0), contractAddress |-> address]

\* what getNFTsFromContract resolves with for a contract that holds one
\* token: its record, or nothing when its fetch failed
NFTLists(address) == {<<>>, <<TokenZero(address)>>}

NoProgress == [current |-> 0, total |-> 0]

\* NFTGrid is rendered
GridShown ==
    /\ page.isConnected
    /\ page.currentView = "nfts"
    /\ page.selectedContract # <<>>

\* NFTDetail is rendered
DetailShown ==
    /\ page.isConnected
    /\ page.currentView = "detail"
    /\ page.selectedNFT # <<>>
    /\ page.selectedContract # <<>>

\* MainPage is mounted without a wallet; null is the empty sequence.
\* awaited records that the call made for the selected contract is in flight
\* (it is then the last of calls); the component keeps no such thing.
InitPage ==
    /\ ScanOff
    /\ decoder = "off" /\ grid = "off" /\ images = "off"
    /\ renderer = "off"
    /\ page = [isConnected |-> FALSE, walletProvider |-> FALSE,
               currentView |-> "contracts", selectedContract |-> <<>>,
               selectedNFT |-> <<>>, nfts |-> <<>>, loading |-> FALSE,
               error |-> "null", loadingProgress |-> NoProgress,
               calls |-> <<>>, awaited |-> FALSE]

Connect ==
    /\ ~page.isConnected
    /\ page' = [page EXCEPT !.isConnected = TRUE]
    /\ UNCHANGED <<scan, decoder, grid, images, renderer>>

ProviderArrives ==
    /\ page.isConnected /\ ~page.walletProvider
    /\ page' = [page EXCEPT !.walletProvider = TRUE]
    /\ UNCHANGED <<scan, decoder, grid, images, renderer>>

\* the wallet disconnects: the effect on [isConnected] resets the view
Disconnect ==
    /\ page.isConnected
    /\ page' = [page EXCEPT !.isConnected = FALSE, !.walletProvider = FALSE,
                            !.currentView = "contracts",
                            !.selectedContract = <<>>,
                            !.selectedNFT = <<>>,
                            !.nfts = <<>>,
                            !.error = "null",
                            !.awaited = FALSE]
    /\ UNCHANGED <<scan, decoder, grid, images, renderer>>

\* a card of ContractsList is clicked: up to the await
HandleSelectContract(contract) ==
    /\ page.isConnected /\ page.currentView = "contracts"
    /\ IF ~page.walletProvider
       THEN page' = [page EXCEPT !.error = "Wallet not connected"]
       ELSE /\ Len(page.calls) < MaxCalls
            /\ page' = [page EXCEPT !.selectedContract = <<contract>>,
                                    !.currentView = "nfts",
                                    !.loading = TRUE,
                                    !.error = "null",
                                    !.loadingProgress = NoProgress,
                                    !.calls = Append(@, contract.address),
                                    !.awaited = TRUE]
    /\ UNCHANGED <<scan, decoder, grid, images, renderer>>

\* finally { setLoading(false); setLoadingProgress({current: 0, total: 0}) }
Finally(st) == [st EXCEPT !.loading = FALSE, !.loadingProgress = NoProgress]

\* call n of st has left calls
Returned(st, n) ==
    [st EXCEPT !.calls = RemoveAt(@, n),
               !.awaited = @ /\ n # Len(st.calls)]

\* getNFTsFromContract of call n resolved: setNfts, then the finally block
FetchResolve(n, nftList) ==
    /\ n \in 1 .. Len(page.calls)
    /\ nftList \in NFTLists(page.calls[n])
    /\ page' = Finally(Returned([page EXCEPT !.nfts = nftList], n))
    /\ UNCHANGED <<scan, decoder, grid, images, renderer>>

\* getNFTsFromContract of call n rejected: setError, then the finally block
FetchReject(n) ==
    /\ n \in 1 .. Len(page.calls)
    /\ page' = Finally(Returned([page EXCEPT !.error = "err.message"], n))
    /\ UNCHANGED <<scan, decoder, grid, images, renderer>>

\* the body of handleBackToContracts
BackToContractsKeepsView(st) ==
    [st EXCEPT !.selectedContract = <<>>, !.nfts = <<>>, !.error = "null"]
BackToContracts(st) ==
    [st EXCEPT !.currentView = "contracts", !.selectedContract = <<>>,
               !.nfts = <<>>, !.error = "null"]

\* a card of the grid is clicked (the cards show when loading is off)
HandleSelectNFT(k) ==
    /\ GridShown /\ ~page.loading
    /\ k \in 1 .. Len(page.nfts)
    /\ page' = [page EXCEPT !.selectedNFT = <<page.nfts[k]>>,
                            !.currentView = "detail"]
    /\ UNCHANGED <<scan, decoder, grid, images, renderer>>

\* Back in the grid
HandleBackToContracts ==
    /\ GridShown
    /\ page' = [BackToContracts(page) EXCEPT !.awaited = FALSE]
    /\ UNCHANGED <<scan, decoder, grid, images, renderer>>

\* Back in the detail view
HandleBackToNFTs ==
    /\ DetailShown
    /\ page' = [page EXCEPT !.currentView = "nfts", !.selectedNFT = <<>>]
    /\ UNCHANGED <<scan, decoder, grid, images, renderer>>

NextPage ==
    \/ Connect
    \/ ProviderArrives
    \/ Disconnect
    \/ \E k \in 1 .. Len(Cards) : HandleSelectContract(Cards[k])
    \/ \E n \in 1 .. Len(page.calls) :
          \/ \E nftList \in NFTLists(page.calls[n]) : FetchResolve(n, nftList)
          \/ FetchReject(n)
    \/ \E k \in 1 .. Len(page.nfts) : HandleSelectNFT(k)
    \/ HandleBackToContracts
    \/ HandleBackToNFTs

SpecPage == InitPage /\ [][NextPage]_vars

(* ------------------- what NFTGrid and NFTDetail render ----------------- *)

MaxCards == 2

\* the token URIs of the collection on show
CollectionURIs ==
    {
        \* the metadata {"name":"Test"}: no image
        Str(<<"d", "a", "t", "a", ":", "a", "p", "p", "l", "i", "c", "a",
              "t", "i", "o", "n", "/", "j", "s", "o", "n", ",", "{", "\"",
              "n", "a", "m", "e", "\"", ":", "\"", "T", "e", "s", "t", "\"",
              "}">>),
        \* the metadata {"image":""}: an empty image
        Str(<<"d", "a", "t", "a", ":", "a", "p", "p", "l", "i", "c", "a",
              "t", "i", "o", "n", "/", "j", "s", "o", "n", ",", "{", "\"",
              "i", "m", "a", "g", "e", "\"", ":", "\"", "\"", "}">>),
        \* the metadata {"image":"x"}: an image by URL
        Str(<<"d", "a", "t", "a", ":", "a", "p", "p", "l", "i", "c", "a",
              "t", "i", "o", "n", "/", "j", "s", "o", "n", ",", "{", "\"",
              "i", "m", "a", "g", "e", "\"", ":", "\"", "x", "\"", "}">>),
        \* the metadata {"image":"data:image/svg+xml,<svg/>"}
        Str(<<"d", "a", "t", "a", ":", "a", "p", "p", "l", "i", "c", "a",
              "t", "i", "o", "n", "/", "j", "s", "o", "n", ",", "{", "\"",
              "i", "m", "a", "g", "e", "\"", ":", "\"", "d", "a", "t", "a",
              ":", "i", "m", "a", "g", "e", "/", "s", "v", "g", "+", "x",
              "m", "l", ",", "<", "s", "v", "g", "/", ">", "\"", "}">>),
        \* the metadata {"image":"data:image/svg+xml;base64,@"}, base64
        Str(<<"d", "a", "t", "a", ":", "a", "p", "p", "l", "i", "c", "a",
              "t", "i", "o", "n", "/", "j", "s", "o", "n", ";", "b", "a",
              "s", "e", "6", "4", ",", "e", "y", "J", "p", "b", "W", "F",
              "n", "Z", "S", "I", "6", "I", "m", "R", "h", "d", "G", "E",
              "6", "a", "W", "1", "h", "Z", "2", "U", "v", "c", "3", "Z",
              "n", "K", "3", "h", "t", "b", "D", "t", "i", "Y", "X", "N",
              "l", "N", "j", "Q", "s", "Q", "C", "J", "9">>)
    }

\* the records fetchNFTData gives for them
Fetched == {fetchNFTData(u) : u \in CollectionURIs} \ {Null}

Collections == UNION {[1 .. n -> Fetched] : n \in 1 .. MaxCards}

\* String.prototype.startsWith
StartsWith(s, prefix) ==
    Len(s) >= Len(prefix) /\ SubSeq(s, 1, Len(prefix)) = prefix

SvgMime ==
    Str(<<"d", "a", "t", "a", ":", "i", "m", "a", "g", "e", "/", "s", "v",
          "g", "+", "x", "m", "l">>)

ImageKey == Str(<<"i", "m", "a", "g", "e">>)

\* nft.metadata.image: the value of the member, undefined without one
Undefined == [kind |-> "undefined", text |-> <<>>]

Text(s) == [kind |-> "string", text |-> s]

Image(metadata) ==
    IF HasMember(metadata, ImageKey)
    THEN LET k == CHOOSE k \in 1 .. Len(metadata.members) :
                      /\ metadata.members[k][1] = ImageKey
                      /\ \A j \in k + 1 .. Len(metadata.members) :
                            metadata.members[j][1] # ImageKey
         IN  Text(metadata.members[k][2])
    ELSE Undefined

\* what a render gives for the image of one token: an element, or the
\* TypeError of calling startsWith on undefined
Element(tag, content, placeholder) ==
    [tag |-> tag, content |-> content, placeholder |-> placeholder]

TypeError == [tag |-> "TypeError", content |-> <<>>, placeholder |-> FALSE]

\* the image of a card of NFTGrid
GridImage(nft) ==
    IF Image(nft.metadata).kind = "undefined" THEN TypeError
    ELSE IF StartsWith(Image(nft.metadata).text, SvgMime)
    THEN IF ensureEncodedDataURI(Image(nft.metadata).text).ok
         THEN Element("object",
                      ensureEncodedDataURI(Image(nft.metadata).text).text,
                      FALSE)
         ELSE TypeError
    ELSE Element("img", Image(nft.metadata).text, FALSE)

\* extractSVGContent: the content, or null (not ok)
NoContent == [ok |-> FALSE, text |-> <<>>]

extractSVGContent(dataURI) ==
    IF ~StartsWith(dataURI, SvgMime) THEN NoContent
    ELSE IF Includes(dataURI, Base64Marker)
    THEN IF Atob(Split(dataURI)[2]).ok THEN Atob(Split(dataURI)[2])
         ELSE NoContent
    ELSE IF Len(Split(dataURI)) < 2 THEN NoContent
    ELSE IF HasEscape(Payload(Split(dataURI)))
    THEN IF DecodeURIComponent(Payload(Split(dataURI))).ok
         THEN DecodeURIComponent(Payload(Split(dataURI)))
         ELSE NoContent
    ELSE Return(Payload(Split(dataURI)))

\* the image of NFTDetail; an empty svgContent is falsy
DetailImage(nft) ==
    IF Image(nft.metadata).kind = "undefined" THEN TypeError
    ELSE IF StartsWith(Image(nft.metadata).text, SvgMime)
    THEN IF /\ extractSVGContent(Image(nft.metadata).text).ok
            /\ extractSVGContent(Image(nft.metadata).text).text # <<>>
         THEN Element("div", extractSVGContent(Image(nft.metadata).text).text,
                      FALSE)
         ELSE Element("img", <<>>, TRUE)
    ELSE Element("img", Image(nft.metadata).text, FALSE)

\* one render of the component on show: the images it put on the page; an
\* exception thrown while rendering leaves nothing on the page, as no
\* error boundary is above the components
Rendered(st, elements) ==
    IF \E k \in 1 .. Len(elements) : elements[k] = TypeError
    THEN [st EXCEPT !.elements = <<>>, !.thrown = TRUE]
    ELSE [st EXCEPT !.elements = elements]

NFTGrid(st) ==
    Rendered(st, [k \in 1 .. Len(st.nfts) |-> GridImage(st.nfts[k])])

NFTDetail(st) == Rendered(st, <<DetailImage(st.nfts[st.selectedNFT])>>)

InitRender ==
    /\ ScanOff
    /\ decoder = "off" /\ grid = "off" /\ page = "off" /\ images = "off"
    /\ renderer = [nfts |-> <<>>, currentView |-> "nfts", selectedNFT |-> 0,
                   elements |-> <<>>, thrown |-> FALSE]

\* setNfts(nftList) with the collection view on show
SetNfts(nftList) ==
    /\ renderer.nfts = <<>> /\ ~renderer.thrown
    /\ renderer' = NFTGrid([renderer EXCEPT !.nfts = nftList])
    /\ UNCHANGED <<scan, decoder, grid, page, images>>

\* the onError handler of an img: its src becomes the placeholder
ImageOnError(k) ==
    /\ ~renderer.thrown
    /\ k \in 1 .. Len(renderer.elements)
    /\ renderer.elements[k].tag = "img" /\ ~renderer.elements[k].placeholder
    /\ renderer' = [renderer EXCEPT !.elements[k].content = <<>>,
                                    !.elements[k].placeholder = TRUE]
    /\ UNCHANGED <<scan, decoder, grid, page, images>>

\* a card is clicked: handleSelectNFT, then NFTDetail renders
OnSelectNFT(k) ==
    /\ ~renderer.thrown /\ renderer.currentView = "nfts"
    /\ k \in 1 .. Len(renderer.nfts)
    /\ renderer' = NFTDetail([renderer EXCEPT !.currentView = "detail",
                                              !.selectedNFT = k])
    /\ UNCHANGED <<scan, decoder, grid, page, images>>

\* Back to Collection: handleBackToNFTs, then NFTGrid renders
OnBack ==
    /\ ~renderer.thrown /\ renderer.currentView = "detail"
    /\ renderer' = NFTGrid([renderer EXCEPT !.currentView = "nfts",
                                            !.selectedNFT = 0])
    /\ UNCHANGED <<scan, decoder, grid, page, images>>

NextRender ==
    \/ \E nftList \in Collections : SetNfts(nftList)
    \/ \E k \in 1 .. MaxCards : ImageOnError(k)
    \/ \E k \in 1 .. MaxCards : OnSelectNFT(k)
    \/ OnBack

SpecRender == InitRender /\ [][NextRender]_vars

(* ------------------------- checked properties -------------------------- *)

\* the indices the scan is meant to cover: [0, min(totalSupply, 30))
Scanned == 0 .. (Min(chainSupply, maxNFTs) - 1)

DigitValue(c) == CHOOSE d \in 0 .. 9 : Digit[d + 1] = c

\* the number a decimal string denotes
RECURSIVE Number(_)
Number(str) ==
    IF Len(str) = 1 THEN DigitValue(str[1])
    ELSE 10 * Number(SubSeq(str, 1, Len(str) - 1)) + DigitValue(str[Len(str)])

Succeeded == {t \in DOMAIN fetch : fetch[t].value = "nft"}

Unsettled == {t \in DOMAIN fetch : fetch[t].phase # "settled"}

\* the chain reads some attempt in progress is waiting for
AwaitedReads ==
    Cardinality({t \in DOMAIN fetch :
                    fetch[t].phase = "reads" /\ fetch[t].uri = "pending"})
    + Cardinality({t \in DOMAIN fetch :
                    fetch[t].phase = "reads" /\ fetch[t].owner = "pending"})

\* every tokenURI / ownerOf read that has been issued and has not settled
InFlightReads == AwaitedReads + stale

\* C1: the list a run returns holds, for each index t of the scanned range
\* [0, min(totalSupply, 30)), at most one record with tokenId = t.toString(),
\* and no record with any other tokenId.
C1_UniqueInRange ==
    pc = "returned" =>
        /\ \A k \in 1 .. Len(nfts) :
              \E t \in Scanned : nfts[k].tokenId = ToString(t)
        /\ \A k, l \in 1 .. Len(nfts) :
              k # l => nfts[k].tokenId # nfts[l].tokenId

C1_Witness ==
    /\ pc = "returned"
    /\ Len(nfts) = 1
    /\ totalTokens = 2

C3_BatchesSequential ==
    \A u \in Unsettled :
        \A t \in DOMAIN fetch : (t \div batchSize) <= (u \div batchSize)

C3_Witness ==
    \E t, u \in DOMAIN fetch :
        /\ u < batchSize /\ t >= batchSize
        /\ fetch[u].attempt > 1
        /\ fetch[t].phase = "reads"

\* C4 as stated: the chain reads in flight at one moment never exceed the
\* batch size.
C4_ReadsAtMostBatchSize == InFlightReads <= batchSize

\* C4 amended: the single-token fetches in flight at one moment never exceed
\* the batch size, and each awaits at most two chain reads, so the reads
\* being awaited never exceed twice the batch size.
C4_FetchesAtMostBatchSize ==
    /\ Cardinality(Unsettled) <= batchSize
    /\ AwaitedReads <= 2 * batchSize

C4_Witness ==
    /\ Cardinality(Unsettled) = batchSize
    /\ AwaitedReads = 2 * batchSize

\* C5: the returned list is in strictly increasing order of token index,
\* whatever the order in which the fetches of a batch settled.
C5_IncreasingOrder ==
    pc = "returned" =>
        \A k \in 1 .. Len(nfts) - 1 :
            Number(nfts[k].tokenId) < Number(nfts[k + 1].tokenId)

C5_Witness ==
    /\ pc = "returned"
    /\ Len(nfts) >= 2
    /\ \E a, b \in 1 .. Len(settleOrder) :
          /\ a < b
          /\ settleOrder[a] > settleOrder[b]
          /\ fetch[settleOrder[a]].value = "nft"
          /\ fetch[settleOrder[b]].value = "nft"
          /\ fetch[settleOrder[b]].attempt > 1

\* C6: once totalSupply has been read, the run never throws, and the list it
\* returns is exactly the records of the indices whose fetch succeeded.
C6_PartialFailureTolerated ==
    supplyRead = "ok" =>
        /\ pc # "thrown"
        /\ error = "none"
        /\ pc = "returned" =>
              /\ Unsettled = {}
              /\ {nfts[k].tokenId : k \in 1 .. Len(nfts)}
                    = {ToString(t) : t \in Succeeded}
              /\ Len(nfts) = Cardinality(Succeeded)

C6_Witness ==
    /\ pc = "returned"
    /\ totalTokens = 2
    /\ nfts = <<>>
    /\ \A t \in DOMAIN fetch : fetch[t].value = "null"

\* C7: when the totalSupply read fails the run throws that error: it returns
\* no list, starts no token fetch and never invokes the progress callback.
C7_SupplyFailureThrows ==
    supplyRead = "failed" =>
        /\ pc = "thrown"
        /\ error = "totalSupplyError"
        /\ DOMAIN fetch = {}
        /\ InFlightReads = 0
        /\ progress = <<>>

C7_Witness == supplyRead = "failed" /\ hasProgress

\* C8: when totalSupply() answers 0 the run returns the empty list, starts no
\* token fetch and never invokes the progress callback.
C8_ZeroSupply ==
    (supplyRead = "ok" /\ chainSupply = 0) =>
        /\ pc = "returned"
        /\ nfts = <<>>
        /\ DOMAIN fetch = {}
        /\ progress = <<>>

C8_Witness == supplyRead = "ok" /\ chainSupply = 0 /\ hasProgress

\* C9: for a totalSupply above 30 the run fetches exactly the indices 0 .. 29,
\* reports 30 as the total in every progress callback and returns at most 30
\* records.
C9_ScanCapped ==
    (supplyRead = "ok" /\ chainSupply > 30) =>
        /\ DOMAIN fetch \subseteq 0 .. 29
        /\ \A k \in 1 .. Len(progress) : progress[k][2] = 30
        /\ Len(nfts) <= 30
        /\ pc = "returned" => DOMAIN fetch = 0 .. 29

C9_Witness ==
    /\ pc = "returned"
    /\ chainSupply > 30
    /\ DOMAIN fetch = 0 .. 29
    /\ Len(progress) = 30

\* C10: a token fetch makes at most 3 attempts, makes no further attempt once
\* one succeeded, and after 3 failed attempts resolves to null instead of
\* rejecting, leaving the other fetches of its batch as they are.
C10_RetryBudget ==
    /\ [](\A t \in DOMAIN fetch :
            /\ fetch[t].attempt \in 1 .. 3
            /\ fetch[t].value # "rejected"
            /\ fetch[t].value = "null" => fetch[t].attempt = 3)
    /\ [][\A t \in DOMAIN fetch :
            /\ fetch[t].phase = "settled" => fetch'[t] = fetch[t]
            /\ (fetch[t].phase # "settled" /\ fetch'[t].value = "null") =>
                  /\ pc' # "thrown"
                  /\ \A u \in DOMAIN fetch \ {t} : fetch'[u] = fetch[u]]_vars

C10_Witness ==
    \E t, u \in DOMAIN fetch :
        /\ fetch[t].value = "null" /\ fetch[t].attempt = 3
        /\ fetch[u].value = "nft"

C20_NoProgressMidBatch ==
    [][Len(progress') > Len(progress) =>
          \A t \in DOMAIN fetch : fetch'[t].phase = "settled"]_vars

C20_Witness ==
    /\ Len(progress) >= batchSize
    /\ pc = "batch"
    /\ \E t \in DOMAIN fetch :
          fetch[t].attempt > 1 /\ fetch[t].phase = "settled"

\* the single-token attempts the call has started so far
RECURSIVE Attempts(_, _)
Attempts(f, n) ==
    IF n = 0 THEN 0
    ELSE (IF n - 1 \in DOMAIN f THEN f[n - 1].attempt ELSE 0)
         + Attempts(f, n - 1)

\* C22: termination: when every chain read settles and every backoff timer
\* fires, a started getNFTsFromContract call returns or throws; up to then
\* it has started at most min(totalSupply, 30) x 3 single-token attempts and
\* each token has waited in at most 2 backoff timers (after attempts 1 and 2).
C22_Terminates ==
    /\ (pc = "supply") ~> (pc \in {"returned", "thrown"})
    /\ [](/\ Attempts(fetch, maxNFTs) <= Min(chainSupply, maxNFTs) * maxRetries
          /\ \A t \in DOMAIN fetch :
                /\ fetch[t].phase = "backoff" => fetch[t].attempt <= 2
                /\ fetch[t].waited + fetch[t].timer
                       <= WaitTime(1) + WaitTime(2))

C22_Witness ==
    /\ pc = "returned"
    /\ Attempts(fetch, maxNFTs) = Min(chainSupply, maxNFTs) * maxRetries
    /\ \E t \in DOMAIN fetch :
          fetch[t].value = "null" /\ fetch[t].waited = WaitTime(1) + WaitTime(2)

\* the text of s after its first comma, all of s if it has none
AfterFirstComma(s) ==
    IF \A k \in 1 .. Len(s) : s[k] # Comma THEN s
    ELSE SubSeq(s, 1 + CHOOSE k \in 1 .. Len(s) :
                          s[k] = Comma /\ \A j \in 1 .. k - 1 : s[j] # Comma,
                Len(s))

\* s has no %XX escape and no ';base64,' marker
PlainText(s) == ~HasEscape(s) /\ ~Includes(s, Base64Marker)

\* C12: every record fetchNFTData or getNFTById returns carries metadata
\* that is a parsed JSON object with an image member; a tokenURI whose JSON
\* has no image never yields a record.
C12_RecordsHaveImage ==
    (decoder.kind = "uri" /\ decoder.nft.kind = "record")
        => HasMember(decoder.nft.metadata, Str(<<"i", "m", "a", "g", "e">>))

\* C15: decodeDataURI never raises: for every input string it returns a
\* text value.
C15_NeverRaises ==
    (decoder.kind = "text" /\ decoder.stage = "decoded") => decoder.out.ok

\* C16 as stated: for every SVG payload p, ensureEncodedDataURI of
\* 'data:image/svg+xml,' + p followed by decodeDataURI yields exactly p.
C16_RoundTrip ==
    (decoder.kind = "svg" /\ decoder.stage = "decoded")
        => decoder.out = Return(decoder.input)

\* C16 amended: the round trip yields exactly p for every SVG payload p
\* that holds no %XX sequence and no ';base64,' text (commas, lone % signs
\* and characters that need encoding included).
C16_RoundTripPlainPayload ==
    (decoder.kind = "svg" /\ decoder.stage = "decoded"
     /\ PlainText(decoder.input))
        => decoder.out = Return(decoder.input)

C16_Witness ==
    /\ decoder.kind = "svg" /\ decoder.stage = "decoded"
    /\ PlainText(decoder.input)
    /\ \E k \in 1 .. Len(decoder.input) : decoder.input[k] = Comma
    /\ \E k \in 1 .. Len(decoder.input) : decoder.input[k] = Percent
    /\ \E k \in 1 .. Len(decoder.input) : decoder.input[k] = Code("<")
    /\ decoder.encoded.text # SvgPrefix \o decoder.input
    /\ decoder.out = Return(decoder.input)

\* C17 as stated: for every string s with no %XX escape and no ';base64,'
\* marker, decodeDataURI(s) returns s unchanged.
C17_PlainUnchanged ==
    (decoder.kind = "text" /\ decoder.stage = "decoded"
     /\ PlainText(decoder.input))
        => decoder.out = Return(decoder.input)

\* C17 amended: for every string s with no %XX escape and no ';base64,'
\* marker, decodeDataURI(s) returns s unchanged when s has no comma, and
\* otherwise the text of s after its first comma, unchanged.
C17_PlainAfterFirstComma ==
    (decoder.kind = "text" /\ decoder.stage = "decoded"
     /\ PlainText(decoder.input))
        => decoder.out = Return(AfterFirstComma(decoder.input))

C17_Witness ==
    /\ decoder.kind = "text" /\ decoder.stage = "decoded"
    /\ PlainText(decoder.input)
    /\ Len(Split(decoder.input)) = 3
    /\ decoder.out = Return(AfterFirstComma(decoder.input))
    /\ Len(decoder.out.text) >= 2
    /\ decoder.out.text # decoder.input

\* nft has an attribute with this trait_type whose value is in values
HasAttribute(nft, trait_type, values) ==
    /\ nft.hasAttributes
    /\ \E a \in 1 .. Len(nft.attributes) :
          /\ nft.attributes[a].trait_type = trait_type
          /\ nft.attributes[a].value \in values

\* C18: the filtered view is exactly the loaded NFTs that, for every trait
\* with a non-empty selection, have an attribute with that trait_type whose
\* value is in the selection; an empty filter map yields all NFTs.
C18_FilteredView ==
    grid.filteredNFTs =
        IF grid.activeFilters.keys = {} THEN grid.nfts
        ELSE SelectSeq(grid.nfts,
                 LAMBDA nft :
                     \A t \in grid.activeFilters.keys :
                         grid.activeFilters.values[t] # {} =>
                             HasAttribute(nft, t, grid.activeFilters.values[t]))

\* C19: every (trait_type, value) held in activeFilters occurs as an
\* attribute of at least one currently loaded NFT.
C19_FiltersOccurInLoaded ==
    \A t \in grid.activeFilters.keys :
        \A v \in grid.activeFilters.values[t] :
            <<t, v>> \in filterOptions(grid.nfts)

\* something failed for contract k of the run: getContractInfo, the token-0
\* fetch, or the read of the image of null metadata
FailedFor(run, k) ==
    \/ run.info[k] = "fail"
    \/ run.token[k] = "fail"
    \/ run.token[k] = "nullmeta"

\* the entry of contract k is what its own outcome calls for
OwnOutcome(run, k, entry) ==
    /\ entry.address = run.contracts[k].address
    /\ FailedFor(run, k) => entry = run.contracts[k]
    /\ ~FailedFor(run, k) =>
          /\ entry.name = "name()" /\ entry.symbol = "symbol()"
          /\ entry.image = "token0.metadata.image" <=> run.token[k] = "image"

\* C14: when fetchContractImages has set the list, a contract for which
\* something failed keeps exactly its static registry entry, every other
\* contract is enriched according to its own outcome, and the list has the
\* contracts of the registry of the network the call was made for, in the
\* same order.
C14_FailureContractScoped ==
    \A n \in 1 .. Len(images.lastRun) :
        LET run == images.lastRun[n]
        IN  /\ \E chainId \in ChainIds :
                  run.contracts = NFT_CONTRACTS_BY_NETWORK(chainId)
            /\ Len(images.contractsWithImages) = Len(run.contracts)
            /\ \A k \in 1 .. Len(run.contracts) :
                  OwnOutcome(run, k, images.contractsWithImages[k])

C14_Witness ==
    /\ Len(images.lastRun) = 1
    /\ Len(images.contractsWithImages) = 2
    /\ images.lastRun[1].info[1] = "fail"
    /\ images.contractsWithImages[1] = NFT_CONTRACTS_BY_NETWORK(31337)[1]
    /\ images.contractsWithImages[2].image = "token0.metadata.image"
    /\ images.contractsWithImages[2].address
           = NFT_CONTRACTS_BY_NETWORK(31337)[2].address

\* C13: the result of a superseded getNFTsFromContract call is discarded:
\* the nfts list only ever holds records whose contractAddress is the
\* address of the selected contract, and it is empty while no contract is
\* selected.
C13_SupersededResultDiscarded ==
    /\ page.selectedContract = <<>> => page.nfts = <<>>
    /\ \A k \in 1 .. Len(page.nfts) :
          page.selectedContract # <<>> =>
              page.nfts[k].contractAddress = page.selectedContract[1].address

\* C23: the loading flag is true whenever the getNFTsFromContract call
\* started for the currently selected contract has not yet returned or
\* failed; the completion of a superseded call never sets it to false.
C23_LoadingWhileAwaited ==
    (page.selectedContract # <<>> /\ page.awaited) => page.loading

\* C25: with the wallet connected, the view 'nfts' has a selected contract
\* and the view 'detail' has a selected NFT and a selected contract; with
\* the wallet disconnected the view is 'contracts' and neither is selected.
C25_ViewState ==
    /\ page.isConnected =>
          /\ page.currentView = "nfts" => page.selectedContract # <<>>
          /\ page.currentView = "detail" =>
                page.selectedNFT # <<>> /\ page.selectedContract # <<>>
    /\ ~page.isConnected =>
          /\ page.currentView = "contracts"
          /\ page.selectedContract = <<>>
          /\ page.selectedNFT = <<>>

\* the detail view is shown after a Back to the collections, while a call
\* of the earlier selection is still in flight
C25_Witness ==
    /\ DetailShown
    /\ Len(page.calls) >= 1
    /\ ~page.awaited

\* the contract addresses of a list, in its order
Addresses(contracts) == [k \in 1 .. Len(contracts) |-> contracts[k].address]

\* C24: once all started fetchContractImages calls have settled,
\* contractsWithImages lists exactly the contract addresses registered for
\* the currently selected network; a fetch started for a previously
\* selected network never overwrites the list of the current one.
C24_ListOfCurrentNetwork ==
    images.runs = <<>> =>
        Addresses(images.contractsWithImages)
            = Addresses(NFT_CONTRACTS_BY_NETWORK(images.chainId))

\* the metadata of nft has no image, or an empty one
LacksImage(nft) ==
    Image(nft.metadata).kind = "undefined" \/ Image(nft.metadata).text = <<>>

\* C21: a fetched token with a missing or empty image never crashes the
\* renderers: no render of NFTGrid or NFTDetail with such a token in the
\* collection throws, and the images of the collection are on the page.
C21_RenderersNeverThrow ==
    (renderer.nfts # <<>>
        /\ \E k \in 1 .. Len(renderer.nfts) : LacksImage(renderer.nfts[k])) =>
        /\ ~renderer.thrown
        /\ renderer.currentView = "nfts" =>
              Len(renderer.elements) = Len(renderer.nfts)

====
